---- MODULE Spec2Model ----
(***************************************************************************)
(* Model of the mortgage calculator: the App component's input signals and *)
(* handlers (src/src/app/app.ts, class App) and the amortization engine    *)
(* (class MortgageCalculatorService in the same file).                     *)
(*                                                                         *)
(* Number representation.  The program computes in IEEE-754 doubles; the   *)
(* model computes in integers and draws its inputs only from values on     *)
(* which every intermediate value of the program is an integer (or, for    *)
(* durations, a multiple of one half), so that on these inputs the double  *)
(* arithmetic is exact and equal to the integer arithmetic below.          *)
(*   money           : whole currency units                                *)
(*   annualRate      : basis points (650 = 6.5 percent)                    *)
(*   years, loanTerm : eighths of a year (8 = one year, 1 = 0.125 year)    *)
(*   numberOfPayments, maxMonths, monthsSaved, OneTimePayment.month,       *)
(*   oneTimeMonth    : half months (3 = 1.5 months)                        *)
(*   month, monthsToPayoff (loop counters) : whole months                  *)
(*   an optional field (TypeScript `undefined`) : << >>, a defined value v *)
(*   : <<v>>                                                               *)
(***************************************************************************)
EXTENDS Integers, Sequences, FiniteSets, TLC

VARIABLES
    \* App input signals (app.ts 39-48, 66)
    loanAmount, annualRate, loanTerm, extraPayment, paymentFrequency,
    oneTimePayments, oneTimeMonth, oneTimeAmount, showAmortization,
    \* history: per month, the amount of the latest add not removed since; and
    \* whether the latest add replaced a stored payment of another amount
    lastAdd, replaced,
    \* a caller of the service: the arguments it uses, the clock, and the
    \* results of the calls it has made so far with the date of each call
    args, today, results, callDates

vars == <<loanAmount, annualRate, loanTerm, extraPayment, paymentFrequency,
          oneTimePayments, oneTimeMonth, oneTimeAmount, showAmortization,
          lastAdd, replaced, args, today, results, callDates>>

appVars == <<loanAmount, annualRate, loanTerm, extraPayment, paymentFrequency,
             oneTimePayments, oneTimeMonth, oneTimeAmount, showAmortization,
             lastAdd, replaced>>

callVars == <<args, today, results, callDates>>

----------------------------------------------------------------------------
(* Representation helpers *)

Undefined == << >>

Some(v) == <<v>>

IsDefined(x) == x # Undefined

ValueOf(x) == x[1]

\* k whole months in half-month units
Months(k) == 2 * k

Max(a, b) == IF a >= b THEN a ELSE b

Min(a, b) == IF a <= b THEN a ELSE b

RECURSIVE Pow(_, _)
Pow(b, e) == IF e = 0 THEN 1 ELSE b * Pow(b, e - 1)

\* first element of a non-empty set of indices
Least(S) == CHOOSE i \in S : \A j \in S : i <= j

\* x / n and x * n for a duration n held in half months
PerMonths(x, n2) == (2 * x) \div n2

TimesMonths(x, n2) == (x * n2) \div 2

----------------------------------------------------------------------------
(* MortgageCalculatorService *)

\* oneTimePayments.find(p => p.month === month): the first match or undefined
FindOneTime(otps, month) ==
    LET hits == {i \in 1..Len(otps) : otps[i].month = Months(month)}
    IN  IF hits = {} THEN Undefined ELSE Some(otps[Least(hits)])

\* annualRate / 100 / 12, annualRate given in basis points
MonthlyRate(rate) == ((rate \div 100) \div 100) \div 12

\* years * 12, in half months, years given in eighths
NumberOfPayments(years) == 3 * years

\* b is the square of a whole number
HasRoot(b) == \E q \in 0..b : q * q = b

Root(b) == CHOOSE q \in 0..b : q * q = b

\* Math.pow(b, n) for an exponent n held in half months: whole when n is
\* whole or b is a square
PowMonths(b, n2) ==
    IF n2 % 2 = 0 THEN Pow(b, n2 \div 2) ELSE Pow(Root(b), n2)

LevelPayment(amount, monthlyRate, numberOfPayments) ==
    IF monthlyRate = 0
    THEN PerMonths(amount, numberOfPayments)
    ELSE LET pow == PowMonths(1 + monthlyRate, numberOfPayments)
         IN  (amount * (monthlyRate * pow)) \div (pow - 1)

\* generateAmortizationSchedule: the monthly equivalent of the base payment
PeriodicPayment(frequency, monthlyPayment) ==
    IF frequency = "biweekly"
    THEN ((monthlyPayment \div 2) * 26) \div 12
    ELSE monthlyPayment

InterestPayment(balance, monthlyRate) == balance * monthlyRate

PrincipalPaymentNoInterest(totalPayment, interestPayment) == totalPayment

PrincipalPayment(totalPayment, interestPayment) == totalPayment - interestPayment

\* the while loop of generateAmortizationSchedule; p holds the parameters
RECURSIVE ScheduleLoop(_, _, _, _)
ScheduleLoop(p, schedule, remainingBalance, month) ==
    IF ~(remainingBalance > 0 /\ Months(month) <= p.numberOfPayments)
    THEN schedule
    ELSE LET periodic == PeriodicPayment(p.paymentFrequency, p.monthlyPayment)
             oneTime == FindOneTime(p.oneTimePayments, month)
             totalPayment ==
                 IF IsDefined(oneTime)
                 THEN periodic + p.extraPayment + ValueOf(oneTime).amount
                 ELSE periodic + p.extraPayment
             interestPayment == InterestPayment(remainingBalance, p.monthlyRate)
             tentative == PrincipalPayment(totalPayment, interestPayment)
             payoff == tentative >= remainingBalance
             principalPayment == IF payoff THEN remainingBalance ELSE tentative
             newBalance == IF payoff THEN 0 ELSE remainingBalance - tentative
             entry == [month |-> month,
                       payment |-> totalPayment,
                       principal |-> principalPayment,
                       interest |-> interestPayment,
                       balance |-> Max(0, newBalance),
                       isOneTimePayment |-> IsDefined(oneTime)]
         IN  IF newBalance = 0
             THEN Append(schedule, entry)
             ELSE ScheduleLoop(p, Append(schedule, entry), newBalance, month + 1)

generateAmortizationSchedule(amount, monthlyRate, monthlyPayment, numberOfPayments, extra, frequency, otps) ==
    ScheduleLoop([monthlyRate |-> monthlyRate,
                  monthlyPayment |-> monthlyPayment,
                  numberOfPayments |-> numberOfPayments,
                  extraPayment |-> extra,
                  paymentFrequency |-> frequency,
                  oneTimePayments |-> otps],
                 << >>, amount, 1)

\* calculateWithExtraPayments: the monthly equivalent of the base payment
BasePayment(frequency, regularPayment) ==
    IF frequency = "biweekly"
    THEN ((regularPayment \div 2) * 26) \div 12
    ELSE regularPayment

\* one pass of the body of the while loop of calculateWithExtraPayments, for
\* month m: the new balance and what the pass adds to the two totals
PayoffStep(p, balance, m) ==
    LET oneTime == FindOneTime(p.oneTimePayments, m)
        oneTimeAmt == IF IsDefined(oneTime) THEN ValueOf(oneTime).amount ELSE 0
        interestPayment == InterestPayment(balance, p.monthlyRate)
        totalPaymentThisMonth == p.basePayment + p.extraPayment + oneTimeAmt
        principalPayment == PrincipalPayment(totalPaymentThisMonth, interestPayment)
    IN  IF principalPayment >= balance
        THEN [balance |-> 0,
              paid |-> balance + interestPayment,
              interest |-> interestPayment]
        ELSE [balance |-> balance - principalPayment,
              paid |-> totalPaymentThisMonth,
              interest |-> interestPayment]

\* the loop condition of calculateWithExtraPayments
PayoffContinues(p, balance, month) == balance > 0 /\ Months(month) < p.maxMonths

\* the while loop of calculateWithExtraPayments; month counts from 0
RECURSIVE PayoffLoop(_, _, _, _, _)
PayoffLoop(p, balance, totalPaid, totalInterest, month) ==
    IF ~PayoffContinues(p, balance, month)
    THEN [totalPaid |-> totalPaid,
          totalInterest |-> totalInterest,
          monthsToPayoff |-> month]
    ELSE LET step == PayoffStep(p, balance, month + 1)
         IN  PayoffLoop(p, step.balance, totalPaid + step.paid,
                        totalInterest + step.interest, month + 1)

PayoffParams(monthlyRate, regularPayment, extra, maxMonths, frequency, otps) ==
    [monthlyRate |-> monthlyRate,
     basePayment |-> BasePayment(frequency, regularPayment),
     extraPayment |-> extra,
     maxMonths |-> maxMonths,
     oneTimePayments |-> otps]

calculateWithExtraPayments(principal, monthlyRate, regularPayment, extra, maxMonths, frequency, otps) ==
    PayoffLoop(PayoffParams(monthlyRate, regularPayment, extra, maxMonths,
                            frequency, otps),
               principal, 0, 0, 0)

\* new Date(year, monthIndex): a month index past 11 carries into the year
NewDate(year, monthIndex) ==
    [year |-> year + (monthIndex \div 12), month |-> monthIndex % 12]

PayoffDateNoCarry(now, monthsToPayoff) ==
    [year |-> now.year + (monthsToPayoff \div 12),
     month |-> (now.month + (monthsToPayoff % 12)) % 12]

PayoffDate(now, monthsToPayoff) ==
    NewDate(now.year + (monthsToPayoff \div 12),
            now.month + (monthsToPayoff % 12))

AccelerationWithoutOneTime(extra, frequency, otps) ==
    extra > 0 \/ frequency = "biweekly"

\* the condition of the savings branch of calculateMortgage
AccelerationActive(extra, frequency, otps) ==
    extra > 0 \/ frequency = "biweekly" \/ Len(otps) > 0

\* calculateMortgage; now is the value of `new Date()` at the call
calculateMortgage(amount, rate, years, extra, frequency, otps, now) ==
    LET monthlyRate == MonthlyRate(rate)
        numberOfPayments == NumberOfPayments(years)
        monthlyPayment == LevelPayment(amount, monthlyRate, numberOfPayments)
        totalPayment == TimesMonths(monthlyPayment, numberOfPayments)
        totalInterest == totalPayment - amount
        biweeklyPayment == IF frequency = "biweekly" THEN monthlyPayment \div 2 ELSE 0
        amortizationSchedule ==
            generateAmortizationSchedule(amount, monthlyRate, monthlyPayment,
                                         numberOfPayments, extra, frequency, otps)
        result == [monthlyPayment |-> monthlyPayment,
                   totalPayment |-> totalPayment,
                   totalInterest |-> totalInterest,
                   amortizationSchedule |-> amortizationSchedule,
                   biweeklyPayment |->
                       IF frequency = "biweekly" THEN Some(biweeklyPayment) ELSE Undefined,
                   interestSaved |-> Undefined,
                   monthsSaved |-> Undefined,
                   payoffDate |-> Undefined]
    IN  IF AccelerationActive(extra, frequency, otps)
        THEN LET withExtra ==
                     calculateWithExtraPayments(amount, monthlyRate, monthlyPayment,
                                                extra, numberOfPayments, frequency, otps)
             IN  [result EXCEPT
                    !.totalPayment = withExtra.totalPaid,
                    !.totalInterest = withExtra.totalInterest,
                    !.interestSaved = Some(totalInterest - withExtra.totalInterest),
                    !.monthsSaved =
                        Some(numberOfPayments - Months(withExtra.monthsToPayoff)),
                    !.payoffDate = Some(PayoffDate(now, withExtra.monthsToPayoff))]
        ELSE result

\* every division the program performs on these arguments is exact
ExactInput(amount, rate, years, frequency) ==
    LET r == MonthlyRate(rate)
        n2 == NumberOfPayments(years)
        pow == PowMonths(1 + r, n2)
        mp == LevelPayment(amount, r, n2)
    IN  /\ rate % (100 * 100 * 12) = 0
        /\ IF r = 0
           THEN (2 * amount) % n2 = 0
           ELSE /\ n2 % 2 = 0 \/ HasRoot(1 + r)
                /\ (amount * (r * pow)) % (pow - 1) = 0
        /\ (mp * n2) % 2 = 0
        /\ frequency = "biweekly" => mp % 2 = 0 /\ ((mp \div 2) * 26) % 12 = 0

----------------------------------------------------------------------------
(* Bounds and input sets *)

MaxLoanUnits == 1

MaxTermEighths == 8

MaxExtraUnits == 2

MaxOneTime == 2

MaxCalls == 2

MaxTicks == 1

\* loan amounts are multiples of a unit that the level payments divide
LoanUnit == 4095 * 12

ExtraUnit == 4096 - 1

\* the largest integer of the model checker
IntLimit == 2 * 1073741823 + 1

LoanAmounts == {LoanUnit * k : k \in 1..MaxLoanUnits}

\* 0, 1200 and 3600 percent a year (monthly rates 0, 1 and 3), in basis
\* points; 1 + 3 is a square, so its power to a half-whole exponent is whole
AnnualRates == {0, 1200 * 100, 3600 * 100}

Terms == 1..MaxTermEighths

ExtraPayments == {ExtraUnit * j : j \in 0..MaxExtraUnits}

Frequencies == {"monthly", "biweekly"}

\* months 1, 1.5 and 2 (half months); amounts small and large
OneTimeChoices ==
    {[month |-> m, amount |-> a] : m \in {2, 3, 4}, a \in {ExtraUnit, LoanUnit}}

RECURSIVE SeqsUpTo(_, _)
SeqsUpTo(S, n) ==
    IF n = 0 THEN {<< >>}
    ELSE LET shorter == SeqsUpTo(S, n - 1)
         IN  shorter \cup {Append(q, x) : q \in shorter, x \in S}

OneTimeLists == SeqsUpTo(OneTimeChoices, MaxOneTime)

\* the intermediate products stay within the model checker's integers
Representable(amount, rate, years) ==
    LET r == MonthlyRate(rate)
        n2 == NumberOfPayments(years)
    IN  r > 0 => /\ n2 <= 24
                 /\ n2 % 2 = 0 \/ HasRoot(1 + r)
                 /\ r * PowMonths(1 + r, n2) <= IntLimit \div (2 * amount)

\* the guard of the mortgageResult signal: the inputs the engine is called on
ValidInput(amount, rate, years) == amount > 0 /\ rate >= 0 /\ years > 0

Inputs ==
    {i \in [loanAmount : LoanAmounts, annualRate : AnnualRates, years : Terms,
            extraPayment : ExtraPayments, paymentFrequency : Frequencies,
            oneTimePayments : OneTimeLists] :
        /\ ValidInput(i.loanAmount, i.annualRate, i.years)
        /\ Representable(i.loanAmount, i.annualRate, i.years)
        /\ ExactInput(i.loanAmount, i.annualRate, i.years, i.paymentFrequency)}

StartDate == [year |-> 2026, month |-> 10]

MonthIndex(d) == 12 * d.year + d.month

----------------------------------------------------------------------------
(* App: initial values of the signals (app.ts 39-48, 66); the separate   *)
(* caller of the service makes no calls while the App runs               *)

Init ==
    /\ loanAmount = 300000
    /\ annualRate = 650
    /\ loanTerm = 30 * 8
    /\ extraPayment = 0
    /\ paymentFrequency = "monthly"
    /\ oneTimePayments = << >>
    /\ oneTimeMonth = Months(12)
    /\ oneTimeAmount = 0
    /\ showAmortization = FALSE
    /\ lastAdd = << >>
    /\ replaced = FALSE
    /\ args = CHOOSE i \in Inputs : TRUE
    /\ today = StartDate
    /\ results = << >>
    /\ callDates = << >>

\* what the user types into a field: a number, or text that is no number
Typed(S) == {[nan |-> FALSE, val |-> v] : v \in S} \cup {[nan |-> TRUE, val |-> 0]}

\* parseFloat(value) || 0
ParseOrZero(value) == IF value.nan \/ value.val = 0 THEN 0 ELSE value.val

MaxTypedMonth == 4

TypedAmounts == Typed({-1, LoanUnit})

TypedRates == Typed({-100, 0})

\* eighths of a year: -1 year, 0.125 year, 1 year
TypedTerms == Typed({-8, 1, 8})

TypedExtras == Typed({-1, ExtraUnit})

\* half months
TypedMonths == Typed(0..MaxTypedMonth)

TypedOneTimeAmounts == Typed({-1, ExtraUnit, LoanUnit})

updateLoanAmount(value) ==
    /\ loanAmount' = Max(0, ParseOrZero(value))
    /\ UNCHANGED <<annualRate, loanTerm, extraPayment, paymentFrequency,
                   oneTimePayments, oneTimeMonth, oneTimeAmount,
                   showAmortization, lastAdd, replaced>>
    /\ UNCHANGED callVars

\* the rate is clamped to 0..100 percent
updateAnnualRate(value) ==
    /\ annualRate' = Max(0, Min(100 * 100, ParseOrZero(value)))
    /\ UNCHANGED <<loanAmount, loanTerm, extraPayment, paymentFrequency,
                   oneTimePayments, oneTimeMonth, oneTimeAmount,
                   showAmortization, lastAdd, replaced>>
    /\ UNCHANGED callVars

\* the term is clamped to 0..50 years
updateLoanTerm(value) ==
    /\ loanTerm' = Max(0, Min(50 * 8, ParseOrZero(value)))
    /\ UNCHANGED <<loanAmount, annualRate, extraPayment, paymentFrequency,
                   oneTimePayments, oneTimeMonth, oneTimeAmount,
                   showAmortization, lastAdd, replaced>>
    /\ UNCHANGED callVars

updateExtraPayment(value) ==
    /\ extraPayment' = Max(0, ParseOrZero(value))
    /\ UNCHANGED <<loanAmount, annualRate, loanTerm, paymentFrequency,
                   oneTimePayments, oneTimeMonth, oneTimeAmount,
                   showAmortization, lastAdd, replaced>>
    /\ UNCHANGED callVars

togglePaymentFrequency ==
    /\ paymentFrequency' =
           IF paymentFrequency = "monthly" THEN "biweekly" ELSE "monthly"
    /\ UNCHANGED <<loanAmount, annualRate, loanTerm, extraPayment,
                   oneTimePayments, oneTimeMonth, oneTimeAmount,
                   showAmortization, lastAdd, replaced>>
    /\ UNCHANGED callVars

\* the month is clamped to 1..loanTerm * 12
updateOneTimeMonth(value) ==
    /\ oneTimeMonth' =
           Max(Months(1), Min(NumberOfPayments(loanTerm), ParseOrZero(value)))
    /\ UNCHANGED <<loanAmount, annualRate, loanTerm, extraPayment,
                   paymentFrequency, oneTimePayments, oneTimeAmount,
                   showAmortization, lastAdd, replaced>>
    /\ UNCHANGED callVars

updateOneTimeAmount(value) ==
    /\ oneTimeAmount' = Max(0, ParseOrZero(value))
    /\ UNCHANGED <<loanAmount, annualRate, loanTerm, extraPayment,
                   paymentFrequency, oneTimePayments, oneTimeMonth,
                   showAmortization, lastAdd, replaced>>
    /\ UNCHANGED callVars

\* current.filter(p => p.month !== month)
FilterOut(current, month) == SelectSeq(current, LAMBDA p : p.month # month)

\* [...list].sort((a, b) => a.month - b.month): a stable sort by month
RECURSIVE SortByMonth(_)
SortByMonth(list) ==
    IF list = << >> THEN << >>
    ELSE LET least == Least({list[i].month : i \in 1..Len(list)})
         IN  SelectSeq(list, LAMBDA p : p.month = least)
                 \o SortByMonth(SelectSeq(list, LAMBDA p : p.month # least))

AddedWithoutFilter(current, month, amount) ==
    SortByMonth(Append(current, [month |-> month, amount |-> amount]))

\* the list addOneTimePayment stores
Added(current, month, amount) ==
    SortByMonth(Append(FilterOut(current, month),
                       [month |-> month, amount |-> amount]))

addOneTimePayment ==
    /\ IF oneTimeAmount > 0 /\ oneTimeMonth > 0
       THEN /\ oneTimePayments' = Added(oneTimePayments, oneTimeMonth, oneTimeAmount)
            /\ oneTimeAmount' = 0
            /\ lastAdd' = (oneTimeMonth :> oneTimeAmount) @@ lastAdd
            /\ replaced' = \E i \in DOMAIN oneTimePayments :
                               /\ oneTimePayments[i].month = oneTimeMonth
                               /\ oneTimePayments[i].amount # oneTimeAmount
       ELSE UNCHANGED <<oneTimePayments, oneTimeAmount, lastAdd, replaced>>
    /\ UNCHANGED <<loanAmount, annualRate, loanTerm, extraPayment,
                   paymentFrequency, oneTimeMonth, showAmortization>>
    /\ UNCHANGED callVars

removeOneTimePayment(month) ==
    /\ oneTimePayments' = FilterOut(oneTimePayments, month)
    /\ lastAdd' = [m \in DOMAIN lastAdd \ {month} |-> lastAdd[m]]
    /\ replaced' = FALSE
    /\ UNCHANGED <<loanAmount, annualRate, loanTerm, extraPayment,
                   paymentFrequency, oneTimeMonth, oneTimeAmount,
                   showAmortization>>
    /\ UNCHANGED callVars

toggleAmortization ==
    /\ showAmortization' = ~showAmortization
    /\ UNCHANGED <<loanAmount, annualRate, loanTerm, extraPayment,
                   paymentFrequency, oneTimePayments, oneTimeMonth,
                   oneTimeAmount, lastAdd, replaced>>
    /\ UNCHANGED callVars

\* the computed signal mortgageResult, read at the date now
mortgageResult(now) ==
    IF loanAmount > 0 /\ annualRate >= 0 /\ loanTerm > 0
    THEN Some(calculateMortgage(loanAmount, annualRate, loanTerm, extraPayment,
                                paymentFrequency, oneTimePayments, now))
    ELSE Undefined

\* the months a payment can be removed for: those typed, and the initial one
RemovableMonths == (0..MaxTypedMonth) \cup {Months(12)}

Next ==
    \/ \E v \in TypedAmounts : updateLoanAmount(v)
    \/ \E v \in TypedRates : updateAnnualRate(v)
    \/ \E v \in TypedTerms : updateLoanTerm(v)
    \/ \E v \in TypedExtras : updateExtraPayment(v)
    \/ togglePaymentFrequency
    \/ \E v \in TypedMonths : updateOneTimeMonth(v)
    \/ \E v \in TypedOneTimeAmounts : updateOneTimeAmount(v)
    \/ addOneTimePayment
    \/ \E m \in RemovableMonths : removeOneTimePayment(m)
    \/ toggleAmortization

Spec == Init /\ [][Next]_vars

----------------------------------------------------------------------------
(* A caller of MortgageCalculatorService.calculateMortgage *)

\* the App's signals keep their initial values; the arguments are any valid
\* input the model represents
CalcInit ==
    /\ loanAmount = 300000
    /\ annualRate = 650
    /\ loanTerm = 30 * 8
    /\ extraPayment = 0
    /\ paymentFrequency = "monthly"
    /\ oneTimePayments = << >>
    /\ oneTimeMonth = Months(12)
    /\ oneTimeAmount = 0
    /\ showAmortization = FALSE
    /\ lastAdd = << >>
    /\ replaced = FALSE
    /\ args \in Inputs
    /\ today = StartDate
    /\ results = << >>
    /\ callDates = << >>

\* one call of calculateMortgage on args, at the current date
Calculate ==
    /\ Len(results) < MaxCalls
    /\ results' = Append(results,
                         calculateMortgage(args.loanAmount, args.annualRate,
                                           args.years, args.extraPayment,
                                           args.paymentFrequency,
                                           args.oneTimePayments, today))
    /\ callDates' = Append(callDates, today)
    /\ UNCHANGED <<args, today>>
    /\ UNCHANGED appVars

\* the calendar moves to the next month
AdvanceClock ==
    /\ MonthIndex(today) - MonthIndex(StartDate) < MaxTicks
    /\ today' = NewDate(today.year, today.month + 1)
    /\ UNCHANGED <<args, results, callDates>>
    /\ UNCHANGED appVars

CalcNext == Calculate \/ AdvanceClock

CalcSpec == CalcInit /\ [][CalcNext]_vars

----------------------------------------------------------------------------
(* Properties of the engine, over the calls made so far *)

Calls == DOMAIN results

Ledger(i) == results[i].amortizationSchedule

\* acceleration as the specification words it
Accelerated ==
    \/ args.extraPayment > 0
    \/ args.paymentFrequency = "biweekly"
    \/ args.oneTimePayments # << >>

RECURSIVE SumOver(_, _)
SumOver(seq, field) ==
    IF seq = << >> THEN 0
    ELSE seq[1][field] + SumOver(Tail(seq), field)

\* C1: in every ledger the balance never increases from one entry to the
\* next, and the balance of the last entry is 0.
C1_BalanceMonotoneToZero ==
    \A i \in Calls :
        LET s == Ledger(i)
        IN  /\ \A k \in 1..(Len(s) - 1) : s[k + 1].balance <= s[k].balance
            /\ s # << >> => s[Len(s)].balance = 0

\* C2: when acceleration is active the ledger has as many entries as the
\* payoff simulation has months: length = numberOfPayments - monthsSaved.
C2_LedgerLengthIsMonthsToPayoff ==
    \A i \in Calls :
        Accelerated =>
            /\ IsDefined(results[i].monthsSaved)
            /\ Months(Len(Ledger(i))) =
                   NumberOfPayments(args.years) - ValueOf(results[i].monthsSaved)

\* C3: when acceleration is active, interestSaved >= 0 and monthsSaved >= 0:
\* neither the payoff time nor the total interest exceeds the baseline's.
C3_SavingsNonNegative ==
    \A i \in Calls :
        Accelerated =>
            /\ IsDefined(results[i].interestSaved)
            /\ IsDefined(results[i].monthsSaved)
            /\ ValueOf(results[i].interestSaved) >= 0
            /\ ValueOf(results[i].monthsSaved) >= 0

\* the passes of the payoff loop on the arguments, in order
RECURSIVE PayoffTrace(_, _, _)
PayoffTrace(p, balance, month) ==
    IF ~PayoffContinues(p, balance, month) THEN << >>
    ELSE LET step == PayoffStep(p, balance, month + 1)
         IN  <<step>> \o PayoffTrace(p, step.balance, month + 1)

SimulatorTrace ==
    LET r == MonthlyRate(args.annualRate)
        n == NumberOfPayments(args.years)
    IN  PayoffTrace(PayoffParams(r, LevelPayment(args.loanAmount, r, n),
                                 args.extraPayment, n, args.paymentFrequency,
                                 args.oneTimePayments),
                    args.loanAmount, 0)

\* the balance outstanding before entry k of ledger s
PriorBalance(s, k) == IF k = 1 THEN args.loanAmount ELSE s[k - 1].balance

\* entry k of ledger s is one whose requested principal covers the balance
Clamped(s, k) == s[k].payment - s[k].interest >= PriorBalance(s, k)

WithoutPayoffDate(r) == [r EXCEPT !.payoffDate = Undefined]

\* C4 as stated: two calls with the same arguments return the same result in
\* every field, whatever the date of each call.
C4_SameResultAtAnyDate ==
    \A i, j \in Calls : results[i] = results[j]

\* C4 amended: two calls with the same arguments agree in every field but
\* payoffDate; payoffDate is the month of the call advanced by monthsToPayoff
\* months, so the two agree on it exactly when made in the same month.
C4_SameResultButPayoffDate ==
    \A i, j \in Calls :
        /\ WithoutPayoffDate(results[i]) = WithoutPayoffDate(results[j])
        /\ IsDefined(results[i].payoffDate) =>
            /\ Months(MonthIndex(ValueOf(results[i].payoffDate))
                          - MonthIndex(callDates[i]))
                   = NumberOfPayments(args.years) - ValueOf(results[i].monthsSaved)
            /\ ValueOf(results[i].payoffDate).month \in 0..11
            /\ (results[i].payoffDate = results[j].payoffDate)
                   <=> (callDates[i] = callDates[j])

C4_Witness ==
    /\ Len(results) >= 2
    /\ callDates[1] # callDates[2]
    /\ IsDefined(results[1].payoffDate)
    /\ ValueOf(results[1].payoffDate).year > callDates[1].year

\* C5 as stated: in every entry of every ledger, payment = principal +
\* interest.
C5_PaymentIsPrincipalPlusInterest ==
    \A i \in Calls :
        \A k \in DOMAIN Ledger(i) :
            Ledger(i)[k].payment = Ledger(i)[k].principal + Ledger(i)[k].interest

\* C5 amended: payment = principal + interest in every entry but a clamped
\* one; a clamped entry is the last, its principal is the balance that was
\* outstanding, its balance is 0 and its payment >= principal + interest.
C5_PaymentDecomposition ==
    \A i \in Calls :
        LET s == Ledger(i)
        IN  \A k \in DOMAIN s :
                IF Clamped(s, k)
                THEN /\ k = Len(s)
                     /\ s[k].principal = PriorBalance(s, k)
                     /\ s[k].balance = 0
                     /\ s[k].payment >= s[k].principal + s[k].interest
                ELSE s[k].payment = s[k].principal + s[k].interest

C5_Witness ==
    \E i \in Calls :
        LET s == Ledger(i)
        IN  /\ Len(s) >= 2
            /\ s[1].interest > 0
            /\ ~Clamped(s, 1)
            /\ Clamped(s, Len(s))
            /\ s[Len(s)].payment > s[Len(s)].principal + s[Len(s)].interest

\* C7: interestSaved, monthsSaved and payoffDate are defined exactly when
\* acceleration was requested, biweeklyPayment exactly when the frequency is
\* biweekly; without acceleration the totals are the closed-form ones.
C7_OptionalFields ==
    \A i \in Calls :
        LET r == results[i]
        IN  /\ IsDefined(r.interestSaved) <=> Accelerated
            /\ IsDefined(r.monthsSaved) <=> Accelerated
            /\ IsDefined(r.payoffDate) <=> Accelerated
            /\ IsDefined(r.biweeklyPayment) <=> (args.paymentFrequency = "biweekly")
            /\ ~Accelerated =>
                /\ r.totalPayment =
                       TimesMonths(r.monthlyPayment, NumberOfPayments(args.years))
                /\ r.totalInterest = r.totalPayment - args.loanAmount

C7_Witness ==
    /\ Len(results) >= 1
    /\ args.extraPayment = 0
    /\ args.paymentFrequency = "monthly"
    /\ args.oneTimePayments # << >>
    /\ IsDefined(results[1].interestSaved)
    /\ IsDefined(results[1].payoffDate)

\* C8: at rate 0, monthly, with no extra and no one-time payment, the ledger
\* has numberOfPayments entries, each with interest 0 and principal =
\* principal / numberOfPayments, and the balance is 0 only in the last.
C8_ZeroRateStraightLine ==
    \A i \in Calls :
        (args.annualRate = 0 /\ ~Accelerated) =>
            LET s == Ledger(i)
                n == NumberOfPayments(args.years)
            IN  /\ Months(Len(s)) = n
                /\ \A k \in DOMAIN s :
                       /\ s[k].interest = 0
                       /\ s[k].principal = PerMonths(args.loanAmount, n)
                       /\ (s[k].balance = 0) <=> (k = Len(s))

\* C10: with acceleration, every ledger entry but the last records what the
\* payoff simulation adds to totalPaid and totalInterest in that month; the
\* sum of the ledger's payments exceeds result.totalPayment by the last
\* entry's payment minus (balance outstanding + interest), which is >= 0, and
\* the sum of the ledger's interest is result.totalInterest.
C10_StagesDifferOnlyInFinalPeriod ==
    \A i \in Calls :
        Accelerated =>
            LET s == Ledger(i)
                t == SimulatorTrace
                last == Len(s)
                excess == s[last].payment
                              - (PriorBalance(s, last) + s[last].interest)
            IN  /\ \A k \in 1..(last - 1) :
                       /\ k <= Len(t)
                       /\ s[k].payment = t[k].paid
                       /\ s[k].interest = t[k].interest
                /\ s # << >> =>
                       /\ SumOver(s, "payment") - results[i].totalPayment = excess
                       /\ excess >= 0
                /\ SumOver(s, "interest") = results[i].totalInterest

----------------------------------------------------------------------------
(* Properties of the App's one-time payment list *)

StoredMonths == {oneTimePayments[i].month : i \in DOMAIN oneTimePayments}

\* the App's inputs are ones the engine is called on and the model represents
AppInputExact ==
    /\ ValidInput(loanAmount, annualRate, loanTerm)
    /\ Representable(loanAmount, annualRate, loanTerm)
    /\ ExactInput(loanAmount, annualRate, loanTerm, paymentFrequency)

\* the one-time amount the history says month k (whole months) receives
AmountDue(k) == IF Months(k) \in DOMAIN lastAdd THEN lastAdd[Months(k)] ELSE 0

\* C6: the stored list holds at most one payment per month, is sorted by
\* month ascending, holds for each month the amount of the latest add not
\* removed since, and that one amount is what the calculation applies to
\* the month.
C6_OnePaymentPerMonthLatestWins ==
    /\ \A i, j \in DOMAIN oneTimePayments :
           i < j => oneTimePayments[i].month < oneTimePayments[j].month
    /\ StoredMonths = DOMAIN lastAdd
    /\ \A i \in DOMAIN oneTimePayments :
           oneTimePayments[i].amount = lastAdd[oneTimePayments[i].month]
    /\ AppInputExact =>
           LET r == ValueOf(mortgageResult(today))
               s == r.amortizationSchedule
           IN  \A k \in DOMAIN s :
                   /\ s[k].payment =
                          PeriodicPayment(paymentFrequency, r.monthlyPayment)
                              + extraPayment + AmountDue(s[k].month)
                   /\ s[k].isOneTimePayment <=> (Months(s[k].month) \in DOMAIN lastAdd)

C6_Witness ==
    /\ replaced
    /\ Len(oneTimePayments) >= 2
    /\ AppInputExact
    /\ \E k \in DOMAIN ValueOf(mortgageResult(today)).amortizationSchedule :
           ValueOf(mortgageResult(today)).amortizationSchedule[k].isOneTimePayment

\* C9: every stored one-time payment has a month that is a positive whole
\* number no greater than loanTerm * 12, and a positive amount.
C9_StoredPaymentsWithinTerm ==
    \A i \in DOMAIN oneTimePayments :
        /\ oneTimePayments[i].month > 0
        /\ oneTimePayments[i].month % 2 = 0
        /\ oneTimePayments[i].month <= NumberOfPayments(loanTerm)
        /\ oneTimePayments[i].amount > 0

\* the list a caller passes when it leaves out the payment at index j
WithoutPayment(otps, j) ==
    [k \in 1..(Len(otps) - 1) |-> IF k < j THEN otps[k] ELSE otps[k + 1]]

\* C11: a ledger entry has isOneTimePayment = true exactly when the one-time
\* payment list holds a payment for that entry's month; a one-time payment
\* whose month is greater than the term in months matches no ledger entry and
\* leaves the ledger, totalPayment and totalInterest as they are computed
\* without that payment.
C11_OutOfRangePaymentIgnored ==
    \A i \in Calls :
        /\ \A k \in DOMAIN Ledger(i) :
               Ledger(i)[k].isOneTimePayment <=>
                   \E j \in DOMAIN args.oneTimePayments :
                       args.oneTimePayments[j].month = Months(Ledger(i)[k].month)
        /\ \A j \in DOMAIN args.oneTimePayments :
               args.oneTimePayments[j].month > NumberOfPayments(args.years) =>
                   LET without ==
                           calculateMortgage(args.loanAmount, args.annualRate,
                                             args.years, args.extraPayment,
                                             args.paymentFrequency,
                                             WithoutPayment(args.oneTimePayments, j),
                                             callDates[i])
                   IN  /\ \A k \in DOMAIN Ledger(i) :
                              Months(Ledger(i)[k].month) # args.oneTimePayments[j].month
                       /\ Ledger(i) = without.amortizationSchedule
                       /\ results[i].totalPayment = without.totalPayment
                       /\ results[i].totalInterest = without.totalInterest

====
